---- MODULE Spec2Model ----
(***************************************************************************)
(* format_sd.py / verify_sd.py: a FAT16 skeleton (boot sector, two FAT     *)
(* copies, root directory) written to the first 20 sectors of a raw block  *)
(* device, and the read-back verifier.                                     *)
(*                                                                         *)
(* Bytes are integers 0..255.  A Python bytes/bytearray is a sequence of    *)
(* bytes, so Python's b[i] is b[i + 1] here; a Python str is a sequence of *)
(* code points.                                                            *)
(* TLC integers are 32-bit signed, so an unsigned 32-bit quantity is kept  *)
(* as the pair <<high 16 bits, low 16 bits>>.                              *)
(*                                                                         *)
(* The block device is the pair (media, disk): media names the contents    *)
(* the card had before the session, disk holds the card's bytes from       *)
(* offset 0 up to the highest offset written in the session; every byte    *)
(* beyond is still what media says.  The card is assumed to hold at least  *)
(* TOTAL_SECTORS sectors.                                                  *)
(***************************************************************************)
EXTENDS Integers, Sequences, FiniteSets, TLC

\* ---------------------------------------------------------------- bounds
\* Program invocations (writer or verifier) in one session on one card.
MaxRuns == 2
\* Initial card contents tried: media \in 0..MaxMedia (see MediaByte).
MaxMedia == 2
\* Longest run of blanks around the word typed at the prompt (see Answers).
MaxPad == 1
\* Block indices tried beyond either end of 0..2047 (see BlockArgsAll).
MaxOver == 2
\* Cut points tried inside a write that fails part-way (see Cuts).
MaxCuts == 1

\* ------------------------------------------------- FAT16 parameters
SECTOR_SIZE == 512
SECTORS_PER_CLUST == 1
RESERVED_SECTORS == 1
NUM_FATS == 2
ROOT_ENTRIES == 16
FAT_SECTORS == 9
ROOT_SECTORS == 1
DATA_CLUSTERS == 2048
DATA_START_SECTOR == RESERVED_SECTORS + NUM_FATS * FAT_SECTORS + ROOT_SECTORS
TOTAL_SECTORS == DATA_START_SECTOR + DATA_CLUSTERS

\* ------------------------------------------------- state
VARIABLES
    media,      \* what the card held before the session
    disk,       \* the card's bytes up to the highest offset written so far
    snap,       \* disk as the first successful format_sd.py run left it
    torn,       \* some format_sd.py run failed after part of its writes
    runs,       \* programs started so far
    prog,       \* the running (or last run) program
    argv,       \* sys.argv
    pc,         \* where the program is
    device,     \* format_sd: device
    force,      \* format_sd: force
    prompted,   \* format_sd: input() was called
    answer,     \* format_sd: answer
    boot,       \* write_fat16: boot
    fat,        \* write_fat16: fat
    root,       \* write_fat16: root
    fh,         \* mode of the open file object f, or "closed"
    fpos,       \* f's position
    iolog,      \* the run's open(), read() and write() calls on the device
    raised,     \* the exception that ended the run, or ""
    exit_code,  \* the process's exit status, -1 while it runs
    outcome,    \* what the run last reported
    vfy         \* verify_sd's module-level names

card == <<media, disk, snap, torn>>
fmt_locals == <<device, force, prompted, answer, boot, fat, root>>
file == <<fh, fpos, iolog>>
ending == <<raised, exit_code, outcome>>
vars == <<media, disk, snap, torn, runs, prog, argv, pc, device, force, prompted,
          answer, boot, fat, root, fh, fpos, iolog, raised, exit_code, outcome, vfy>>

\* ------------------------------------------------- bytes and struct
\* f as an explicitly enumerated sequence (f \o <<>> = f): TLC otherwise keeps
\* a function constructor unevaluated under every later EXCEPT.
Enumerated(f) == f \o <<>>

bytearray(n) == Enumerated([i \in 1..n |-> 0])

\* b[off : off+Len(s)] = s, for a slice whose length equals Len(s).
SetSlice(b, off, s) ==
    SubSeq(b, 1, off) \o s \o SubSeq(b, off + Len(s) + 1, Len(b))

\* struct.pack_into('<H', b, off, v), 0 <= v <= 65535.
pack_into_H(b, off, v) ==
    [b EXCEPT ![off + 1] = v % 256, ![off + 2] = (v \div 256) % 256]

\* An int below 2^31 as an unsigned 32-bit pair.
U32(v) == <<v \div 65536, v % 65536>>

\* struct.pack_into('<L', b, off, v) with v given as a pair.
pack_into_L(b, off, v) ==
    [b EXCEPT ![off + 1] = v[2] % 256,
              ![off + 2] = (v[2] \div 256) % 256,
              ![off + 3] = v[1] % 256,
              ![off + 4] = (v[1] \div 256) % 256]

\* struct.unpack_from('<H', b, off)[0]
unpack_from_H(b, off) == b[off + 1] + 256 * b[off + 2]

\* struct.unpack_from('<L', b, off)[0], as a pair.
unpack_from_L(b, off) ==
    <<b[off + 3] + 256 * b[off + 4], b[off + 1] + 256 * b[off + 2]>>

\* b[lo:hi]
Slice(b, lo, hi) == SubSeq(b, lo + 1, hi)

\* ------------------------------------------------- byte literals
JMP_STUB     == <<235, 90, 144>>                            \* b'\xEB\x5A\x90'
OEM_NAME     == <<77, 83, 68, 79, 83, 53, 46, 48>>          \* b'MSDOS5.0'
VOLUME_SERIAL == <<57005, 48879>>                           \* 0xDEADBEEF
VOLUME_LABEL == <<70, 80, 71, 65, 32, 68, 65, 84, 65, 32, 32>>  \* b'FPGA DATA  '
FS_TYPE      == <<70, 65, 84, 49, 54, 32, 32, 32>>          \* b'FAT16   '
FILE_NAME    == <<68, 65, 84, 65, 32, 32, 32, 32>>          \* b'DATA    '
FILE_EXT     == <<66, 73, 78>>                              \* b'BIN'

\* ------------------------------------------------- make_boot_sector
\* The volume serial number taken from the clock (here: the run), as
\* formatters commonly do, instead of the fixed 0xDEADBEEF.
make_boot_sector_stamped ==
    LET b0  == bytearray(SECTOR_SIZE)
        b1  == SetSlice(b0, 0, JMP_STUB)
        b2  == SetSlice(b1, 3, OEM_NAME)
        b3  == pack_into_H(b2, 11, SECTOR_SIZE)
        b4  == [b3 EXCEPT ![13 + 1] = SECTORS_PER_CLUST]
        b5  == pack_into_H(b4, 14, RESERVED_SECTORS)
        b6  == [b5 EXCEPT ![16 + 1] = NUM_FATS]
        b7  == pack_into_H(b6, 17, ROOT_ENTRIES)
        b8  == pack_into_H(b7, 19, TOTAL_SECTORS)
        b9  == [b8 EXCEPT ![21 + 1] = 248]
        b10 == pack_into_H(b9, 22, FAT_SECTORS)
        b11 == pack_into_H(b10, 24, 63)
        b12 == pack_into_H(b11, 26, 255)
        b13 == pack_into_L(b12, 28, U32(0))
        b14 == pack_into_L(b13, 32, U32(0))
        b15 == [b14 EXCEPT ![36 + 1] = 128]
        b16 == [b15 EXCEPT ![38 + 1] = 41]
        b17 == pack_into_L(b16, 39, <<VOLUME_SERIAL[1], runs>>)
        b18 == SetSlice(b17, 43, VOLUME_LABEL)
        b19 == SetSlice(b18, 54, FS_TYPE)
        b20 == [b19 EXCEPT ![510 + 1] = 85]
    IN  [b20 EXCEPT ![511 + 1] = 170]

make_boot_sector ==
    LET b0  == bytearray(SECTOR_SIZE)
        b1  == SetSlice(b0, 0, JMP_STUB)
        b2  == SetSlice(b1, 3, OEM_NAME)
        b3  == pack_into_H(b2, 11, SECTOR_SIZE)
        b4  == [b3 EXCEPT ![13 + 1] = SECTORS_PER_CLUST]
        b5  == pack_into_H(b4, 14, RESERVED_SECTORS)
        b6  == [b5 EXCEPT ![16 + 1] = NUM_FATS]
        b7  == pack_into_H(b6, 17, ROOT_ENTRIES)
        b8  == pack_into_H(b7, 19, TOTAL_SECTORS)
        b9  == [b8 EXCEPT ![21 + 1] = 248]
        b10 == pack_into_H(b9, 22, FAT_SECTORS)
        b11 == pack_into_H(b10, 24, 63)
        b12 == pack_into_H(b11, 26, 255)
        b13 == pack_into_L(b12, 28, U32(0))
        b14 == pack_into_L(b13, 32, U32(0))
        b15 == [b14 EXCEPT ![36 + 1] = 128]
        b16 == [b15 EXCEPT ![38 + 1] = 41]
        b17 == pack_into_L(b16, 39, VOLUME_SERIAL)
        b18 == SetSlice(b17, 43, VOLUME_LABEL)
        b19 == SetSlice(b18, 54, FS_TYPE)
        b20 == [b19 EXCEPT ![510 + 1] = 85]
    IN  [b20 EXCEPT ![511 + 1] = 170]

\* ------------------------------------------------- make_fat
\* struct.pack('<H', v)
pack_H(v) == <<v % 256, (v \div 256) % 256>>

\* The bytes that
\*     for c in range(lo, hi): struct.pack_into('<H', fat, c * 2, c + 1)
\* stores, in increasing c: entry c goes to offsets 2c and 2c+1, so a range of
\* consecutive c fills the consecutive offsets 2*lo .. 2*hi-1.  The range is
\* halved only to keep the evaluation shallow.
RECURSIVE fat_links(_, _)
fat_links(lo, hi) ==
    IF lo >= hi THEN <<>>
    ELSE IF hi = lo + 1 THEN pack_H(lo + 1)
    ELSE LET mid == (lo + hi) \div 2
         IN  fat_links(lo, mid) \o fat_links(mid, hi)

\* The loop over range(lo, hi) applied to the buffer buf.
fat_link_loop(buf, lo, hi) ==
    IF lo >= hi THEN buf ELSE SetSlice(buf, lo * 2, fat_links(lo, hi))

\* The loop's range stops one entry early: range(2, DATA_CLUSTERS).
make_fat_short ==
    LET f0   == bytearray(FAT_SECTORS * SECTOR_SIZE)
        f1   == pack_into_H(f0, 0, 65528)
        f2   == pack_into_H(f1, 2, 65535)
        f3   == fat_link_loop(f2, 2, DATA_CLUSTERS)
        last == DATA_CLUSTERS + 2 - 1
    IN  pack_into_H(f3, last * 2, 65535)

make_fat ==
    LET f0   == bytearray(FAT_SECTORS * SECTOR_SIZE)
        f1   == pack_into_H(f0, 0, 65528)
        f2   == pack_into_H(f1, 2, 65535)
        f3   == fat_link_loop(f2, 2, DATA_CLUSTERS + 2 - 1)
        last == DATA_CLUSTERS + 2 - 1
    IN  pack_into_H(f3, last * 2, 65535)

\* ------------------------------------------------- make_root_dir
\* The file size given in clusters instead of bytes.
make_root_dir_clusters ==
    LET r0 == bytearray(ROOT_SECTORS * SECTOR_SIZE)
        r1 == SetSlice(r0, 0, FILE_NAME)
        r2 == SetSlice(r1, 8, FILE_EXT)
        r3 == [r2 EXCEPT ![11 + 1] = 32]
        r4 == pack_into_H(r3, 26, 2)
    IN  pack_into_L(r4, 28, U32(DATA_CLUSTERS))


make_root_dir ==
    LET r0 == bytearray(ROOT_SECTORS * SECTOR_SIZE)
        r1 == SetSlice(r0, 0, FILE_NAME)
        r2 == SetSlice(r1, 8, FILE_EXT)
        r3 == [r2 EXCEPT ![11 + 1] = 32]
        r4 == pack_into_H(r3, 26, 2)
    IN  pack_into_L(r4, 28, U32(DATA_CLUSTERS * SECTOR_SIZE))


\* ------------------------------------------------- Python str helpers
\* str.isspace() over the code points that can occur here (ASCII).
IsSpace(c) == c \in (9..13) \cup (28..32)

RECURSIVE lstrip(_)
lstrip(s) == IF s # <<>> /\ IsSpace(Head(s)) THEN lstrip(Tail(s)) ELSE s

RECURSIVE rstrip(_)
rstrip(s) ==
    IF s # <<>> /\ IsSpace(s[Len(s)]) THEN rstrip(SubSeq(s, 1, Len(s) - 1)) ELSE s

strip(s) == rstrip(lstrip(s))

\* str.upper() on ASCII text.
upper(s) == [i \in 1..Len(s) |-> IF s[i] >= 97 /\ s[i] <= 122 THEN s[i] - 32 ELSE s[i]]

\* bytes.decode("ascii", errors="replace"): a byte above 127 becomes U+FFFD.
decode_ascii(bs) == [i \in 1..Len(bs) |-> IF bs[i] < 128 THEN bs[i] ELSE 65533]

IsDigit(c) == c >= 48 /\ c <= 57

\* str(n) for an int n.
RECURSIVE Digits(_)
Digits(n) == IF n < 10 THEN <<48 + n>> ELSE Append(Digits(n \div 10), 48 + (n % 10))

str(n) == IF n < 0 THEN <<45>> \o Digits(0 - n) ELSE Digits(n)

\* The value of a run of digits and single underscores between digits.
RECURSIVE DigitsValue(_, _)
DigitsValue(s, acc) ==
    IF s = <<>> THEN acc
    ELSE IF Head(s) = 95 THEN DigitsValue(Tail(s), acc)
    ELSE DigitsValue(Tail(s), 10 * acc + (Head(s) - 48))

\* int(s) for a str s: surrounding whitespace, an optional sign, decimal
\* digits with single underscores between them.  ok = FALSE is ValueError.
int(s) ==
    LET t      == strip(s)
        signed == t # <<>> /\ Head(t) \in {43, 45}
        body   == IF signed THEN Tail(t) ELSE t
        wellformed ==
            /\ body # <<>>
            /\ \A i \in 1..Len(body) : IsDigit(body[i]) \/ body[i] = 95
            /\ body[1] # 95 /\ body[Len(body)] # 95
            /\ \A i \in 1..(Len(body) - 1) : ~(body[i] = 95 /\ body[i + 1] = 95)
        mag    == DigitsValue(body, 0)
    IN  IF wellformed
           THEN [ok |-> TRUE, val |-> IF signed /\ Head(t) = 45 THEN 0 - mag ELSE mag]
           ELSE [ok |-> FALSE, val |-> 0]

Range(s) == {s[i] : i \in 1..Len(s)}

\* ------------------------------------------------- the block device
\* What sector-sized junk the card held before the session: media 0 is a
\* zeroed card, media 1 an erased one (0xFF), larger media vary by sector.
MediaByte(m, o) ==
    IF m = 0 THEN 0
    ELSE IF m = 1 THEN 255
    ELSE ((m - 1) * (o \div SECTOR_SIZE) + o) % 256

\* The byte at offset o of the card (m, d).
DeviceByte(m, d, o) == IF o < Len(d) THEN d[o + 1] ELSE MediaByte(m, o)

\* The card's bytes at offsets lo .. hi-1.
DeviceBytes(m, d, lo, hi) ==
    IF hi <= Len(d) THEN SubSeq(d, lo + 1, hi)
    ELSE [i \in 1..(hi - lo) |-> DeviceByte(m, d, lo + i - 1)]

\* f.seek(pos); f.read(n)
ReadAt(m, d, pos, n) == DeviceBytes(m, d, pos, pos + n)

\* f.seek(pos); f.write(buf), of which the first k bytes reach the card.
WriteAt(m, d, pos, buf, k) ==
    DeviceBytes(m, d, 0, pos) \o SubSeq(buf, 1, k) \o SubSeq(d, pos + k + 1, Len(d))

\* Two cards (same media) hold the same bytes.
SameContents(m, d1, d2) ==
    LET top == IF Len(d1) > Len(d2) THEN Len(d1) ELSE Len(d2)
    IN  DeviceBytes(m, d1, 0, top) = DeviceBytes(m, d2, 0, top)

\* How many bytes of a write of n bytes reach the card when it fails.
Cuts(n) == {(j * n) \div (MaxCuts + 1) : j \in 0..MaxCuts}

\* ------------------------------------------------- the environment
FORMAT_SD == "format_sd.py"
VERIFY_SD == "verify_sd.py"
\* The path the card is at; verify_sd.py's default DEVICE.
CARD == "\\\\.\\PhysicalDrive1"
\* A path that names nothing.
MISSING == "/dev/sdz"
FORCE == "--force"

\* open() of the card can be refused or fail; of any other path it finds nothing.
OpenErrors(path) ==
    IF path = CARD THEN {"PermissionError", "OSError"} ELSE {"FileNotFoundError"}
\* read(), write(), flush() and fsync() on an open card.
IOErrors == {"PermissionError", "OSError"}

\* Lines typed at the prompt: a word with up to MaxPad blanks, or a tab, on
\* either side.
AnswerWords ==
    { <<>>, <<89, 69, 83>>, <<121, 69, 115>>, <<89>>, <<78, 79>>,
      <<89, 69, 83, 83>>, <<89, 32, 69, 83>>, <<110, 89, 69, 83>> }
Pads == UNION {[1..n -> {32}] : n \in 0..MaxPad} \cup {<<9>>}
Answers == {l \o w \o r : l \in Pads, w \in AnswerWords, r \in Pads}
YES == <<89, 69, 83>>

FormatArgvs ==
    { <<FORMAT_SD>>,
      <<FORMAT_SD, CARD>>, <<FORMAT_SD, CARD, FORCE>>,
      <<FORMAT_SD, MISSING>>, <<FORMAT_SD, MISSING, FORCE>>,
      <<FORMAT_SD, FORCE>>, <<FORMAT_SD, FORCE, CARD>> }

NoBuf == <<>>


\* ------------------------------------------------- verify_sd.py literals
V_LAST_BLOCK == 2047
V_ROOT_SECTOR == 19
V_DATA_START == 20
V_SECTOR == 512
V_SAMPLE_LEN == 16
V_EXPECTED_SIZE == U32(1048576)

\* Block index arguments: every decimal around the accepted range, and text
\* that int() takes or refuses.
OtherBlockArgs ==
    { <<>>, <<120>>, <<32, 55, 32>>, <<43, 55>>, <<49, 95, 48>>, <<95, 49>>,
      <<48, 120, 49, 48>>, <<49, 46, 53>>, <<45, 45, 49>>, <<45, 48>> }
BlockArgsAll ==
    {str(n) : n \in (0 - MaxOver)..(V_LAST_BLOCK + MaxOver)} \cup OtherBlockArgs
BlockArgsFew ==
    {str(n) : n \in {-1, 5, V_LAST_BLOCK, V_LAST_BLOCK + 1}} \cup {<<120>>}

VerifyArgvs(args) ==
    { <<VERIFY_SD>>, <<VERIFY_SD, CARD>>, <<VERIFY_SD, MISSING>> }
        \cup {<<VERIFY_SD, CARD, a>> : a \in args}

\* ------------------------------------------------- sessions
NoVfy ==
    [DEVICE |-> "", BASE_BLOCK |-> 0, sig_ok |-> FALSE, fs_type |-> <<>>,
     vol_label |-> <<>>, name |-> <<>>, ext |-> <<>>, attr |-> 0, cluster |-> 0,
     file_size |-> <<0, 0>>, size_report |-> "", captures |-> <<>>, aes |-> ""]

Init ==
    /\ media \in 0..MaxMedia
    /\ disk = <<>> /\ snap = <<>> /\ torn = FALSE
    /\ runs = 0 /\ prog = "" /\ argv = <<>> /\ pc = "shell"
    /\ device = "" /\ force = FALSE /\ prompted = FALSE /\ answer = <<>>
    /\ boot = NoBuf /\ fat = NoBuf /\ root = NoBuf
    /\ fh = "closed" /\ fpos = 0 /\ iolog = <<>>
    /\ raised = "" /\ exit_code = -1 /\ outcome = ""
    /\ vfy = NoVfy

\* The shell starts a program on the card.
Start(p, args) ==
    /\ pc = "shell"
    /\ runs' = runs + 1 /\ prog' = p /\ argv' = args /\ pc' = "main"
    /\ UNCHANGED <<card, fmt_locals, file, ending, vfy>>

\* The process is gone: nothing of it survives but what it did to the card.
Reap ==
    /\ pc = "exit"
    /\ pc' = "shell" /\ prog' = "" /\ argv' = <<>>
    /\ device' = "" /\ force' = FALSE /\ prompted' = FALSE /\ answer' = <<>>
    /\ boot' = NoBuf /\ fat' = NoBuf /\ root' = NoBuf
    /\ fh' = "closed" /\ fpos' = 0 /\ iolog' = <<>>
    /\ raised' = "" /\ exit_code' = -1 /\ outcome' = ""
    /\ vfy' = NoVfy
    /\ UNCHANGED <<card, runs>>

\* The process ends: status, last report, the exception if one ended it.  A
\* with-block has closed f on the way out, and the locals are gone.
Exit(code, how, exc) ==
    /\ pc' = "exit" /\ exit_code' = code /\ outcome' = how /\ raised' = exc
    /\ fh' = "closed"
    /\ boot' = NoBuf /\ fat' = NoBuf /\ root' = NoBuf

\* An exception no except clause takes: traceback, status 1.
Uncaught == [code |-> 1, how |-> "traceback"]

\* write_fat16's except clauses.
write_fat16_noexit(exc) ==
    IF exc = "PermissionError" THEN [code |-> 0, how |-> "permission denied"]
    ELSE IF exc = "FileNotFoundError" THEN [code |-> 0, how |-> "not found"]
    ELSE Uncaught

write_fat16_except(exc) ==
    IF exc = "PermissionError" THEN [code |-> 1, how |-> "permission denied"]
    ELSE IF exc = "FileNotFoundError" THEN [code |-> 1, how |-> "not found"]
    ELSE Uncaught

\* verify_sd's except clauses print and fall off the end of the script.
verify_except(exc) ==
    IF exc = "PermissionError" THEN [code |-> 0, how |-> "permission denied"]
    ELSE IF exc = "FileNotFoundError" THEN [code |-> 0, how |-> "not found"]
    ELSE Uncaught

IOEntry(op, off, n) == [op |-> op, off |-> off, n |-> n]

\* ------------------------------------------------- format_sd.__main__
LaunchFormat ==
    /\ runs < MaxRuns
    /\ \E args \in FormatArgvs : Start(FORMAT_SD, args)

\* if len(sys.argv) < 2: print(__doc__); list drives; sys.exit(0)
FmtUsage ==
    /\ prog = FORMAT_SD /\ pc = "main" /\ Len(argv) < 2
    /\ Exit(0, "usage", "")
    /\ UNCHANGED <<card, runs, prog, argv, device, force, prompted, answer, fpos,
                   iolog, vfy>>

\* device = sys.argv[1]; force = '--force' in sys.argv
FmtArgs ==
    /\ prog = FORMAT_SD /\ pc = "main" /\ Len(argv) >= 2
    /\ device' = argv[2]
    /\ force' = (FORCE \in Range(argv))
    /\ pc' = IF force' THEN "write_fat16" ELSE "input"
    /\ UNCHANGED <<card, runs, prog, argv, prompted, answer, boot, fat, root, file,
                   ending, vfy>>

\* The prefix test a hurried confirmation check would make.
confirmed_initial(a) == strip(a) # <<>> /\ upper(strip(a))[1] = 89

\* answer.strip().upper() == 'YES'
confirmed(a) == upper(strip(a)) = YES

\* answer = input(...); if answer.strip().upper() != 'YES': sys.exit(0)
FmtConfirm ==
    /\ prog = FORMAT_SD /\ pc = "input"
    /\ \E a \in Answers :
        /\ answer' = a /\ prompted' = TRUE
        /\ IF confirmed(a)
              THEN /\ pc' = "write_fat16"
                   /\ UNCHANGED <<boot, fat, root, fh, ending>>
              ELSE Exit(0, "aborted", "")
    /\ UNCHANGED <<card, runs, prog, argv, device, force, fpos, iolog, vfy>>

\* input() at end of input: EOFError, which nothing catches.
FmtInputEOF ==
    /\ prog = FORMAT_SD /\ pc = "input"
    /\ prompted' = TRUE
    /\ Exit(Uncaught.code, Uncaught.how, "EOFError")
    /\ UNCHANGED <<card, runs, prog, argv, device, force, answer, fpos, iolog, vfy>>

\* ------------------------------------------------- write_fat16
BOOT_OFFSET == 0 * SECTOR_SIZE
FAT1_OFFSET == RESERVED_SECTORS * SECTOR_SIZE
FAT2_OFFSET_overlap == (RESERVED_SECTORS + FAT_SECTORS - 1) * SECTOR_SIZE
FAT2_OFFSET == (RESERVED_SECTORS + FAT_SECTORS) * SECTOR_SIZE
ROOT_OFFSET_data == DATA_START_SECTOR * SECTOR_SIZE
ROOT_OFFSET == (RESERVED_SECTORS + NUM_FATS * FAT_SECTORS) * SECTOR_SIZE

\* write_fat16(device): boot = make_boot_sector(); fat = make_fat();
\* root = make_root_dir().  answer is never read again: it is dropped here, so
\* that runs that differ only in the confirmation typed go on as one.
FmtBuild ==
    /\ prog = FORMAT_SD /\ pc = "write_fat16"
    /\ boot' = make_boot_sector /\ fat' = make_fat /\ root' = make_root_dir
    /\ answer' = <<>>
    /\ pc' = "open"
    /\ UNCHANGED <<card, runs, prog, argv, device, force, prompted, file, ending, vfy>>

\* with open(device_path, 'r+b') as f:
FmtOpen ==
    /\ prog = FORMAT_SD /\ pc = "open" /\ device = CARD
    /\ fh' = "r+b" /\ fpos' = 0
    /\ iolog' = Append(iolog, IOEntry("open", 0, 0))
    /\ pc' = "w_boot"
    /\ UNCHANGED <<card, runs, prog, argv, device, force, prompted, answer, boot, fat,
                   root, ending, vfy>>

FmtOpenFail ==
    /\ prog = FORMAT_SD /\ pc = "open"
    /\ iolog' = Append(iolog, IOEntry("open", 0, 0))
    /\ \E exc \in OpenErrors(device) :
        Exit(write_fat16_except(exc).code, write_fat16_except(exc).how, exc)
    /\ UNCHANGED <<card, runs, prog, argv, device, force, prompted, answer, fpos, vfy>>

\* f.seek(off); f.write(buf)
SeekWrite(at, off, buf, next) ==
    /\ prog = FORMAT_SD /\ pc = at /\ fh = "r+b"
    /\ disk' = WriteAt(media, disk, off, buf, Len(buf))
    /\ fpos' = off + Len(buf)
    /\ iolog' = Append(iolog, IOEntry("write", off, Len(buf)))
    /\ pc' = next
    /\ UNCHANGED <<media, snap, torn, runs, prog, argv, device, force, prompted,
                   answer, boot, fat, root, fh, ending, vfy>>

\* f.seek(off); f.write(buf) fails with the first k bytes on the card.
SeekWriteFail(at, off, buf) ==
    /\ prog = FORMAT_SD /\ pc = at /\ fh = "r+b"
    /\ \E k \in Cuts(Len(buf)), exc \in IOErrors :
        /\ disk' = WriteAt(media, disk, off, buf, k)
        /\ fpos' = off + k
        /\ iolog' = IF k > 0 THEN Append(iolog, IOEntry("write", off, k)) ELSE iolog
        /\ torn' = (torn \/ k > 0 \/ \E i \in 1..Len(iolog) : iolog[i].op = "write")
        /\ Exit(write_fat16_except(exc).code, write_fat16_except(exc).how, exc)
    /\ UNCHANGED <<media, snap, runs, prog, argv, device, force, prompted, answer, vfy>>

FmtWriteBoot == SeekWrite("w_boot", BOOT_OFFSET, boot, "w_fat1")
FmtWriteFat1 == SeekWrite("w_fat1", FAT1_OFFSET, fat, "w_fat2")
FmtWriteFat2 == SeekWrite("w_fat2", FAT2_OFFSET, fat, "w_root")
FmtWriteRoot == SeekWrite("w_root", ROOT_OFFSET, root, "sync")

FmtWriteFail ==
    \/ SeekWriteFail("w_boot", BOOT_OFFSET, boot)
    \/ SeekWriteFail("w_fat1", FAT1_OFFSET, fat)
    \/ SeekWriteFail("w_fat2", FAT2_OFFSET, fat)
    \/ SeekWriteFail("w_root", ROOT_OFFSET, root)

\* f.flush(); os.fsync(f.fileno()); the with-block closes f; "Done!"
FmtSync ==
    /\ prog = FORMAT_SD /\ pc = "sync" /\ fh = "r+b"
    /\ snap' = IF snap = <<>> THEN disk ELSE snap
    /\ Exit(0, "done", "")
    /\ UNCHANGED <<media, disk, torn, runs, prog, argv, device, force, prompted,
                   answer, fpos, iolog, vfy>>

FmtSyncFail ==
    /\ prog = FORMAT_SD /\ pc = "sync" /\ fh = "r+b"
    /\ \E exc \in IOErrors :
        Exit(write_fat16_except(exc).code, write_fat16_except(exc).how, exc)
    /\ UNCHANGED <<card, runs, prog, argv, device, force, prompted, answer, fpos,
                   iolog, vfy>>

FormatStep ==
    \/ FmtUsage \/ FmtArgs \/ FmtConfirm \/ FmtInputEOF \/ FmtBuild
    \/ FmtOpen \/ FmtOpenFail
    \/ FmtWriteBoot \/ FmtWriteFat1 \/ FmtWriteFat2 \/ FmtWriteRoot \/ FmtWriteFail
    \/ FmtSync \/ FmtSyncFail

\* ------------------------------------------------- verify_sd
LaunchVerify ==
    /\ runs < MaxRuns
    /\ \E args \in VerifyArgvs(BlockArgsFew) : Start(VERIFY_SD, args)

\* One invocation of verify_sd.py alone, with any block index argument.
LaunchVerifyAny ==
    /\ runs = 0
    /\ \E args \in VerifyArgvs(BlockArgsAll) : Start(VERIFY_SD, args)

\* if BASE_BLOCK < 0 or BASE_BLOCK > 2048: the bound is one too far.
base_block_rejected_late(b) == b < 0 \/ b > V_LAST_BLOCK + 1

\* if BASE_BLOCK < 0 or BASE_BLOCK > 2047:
base_block_rejected(b) == b < 0 \/ b > V_LAST_BLOCK

\* DEVICE = sys.argv[1] if len(sys.argv) > 1 else r"\\.\PhysicalDrive1"
\* BASE_BLOCK = int(sys.argv[2]) if len(sys.argv) > 2 else 0
\* if BASE_BLOCK < 0 or BASE_BLOCK > 2047: raise SystemExit("ERROR: ...")
VfyArgs ==
    /\ prog = VERIFY_SD /\ pc = "main"
    /\ LET dev    == IF Len(argv) > 1 THEN argv[2] ELSE CARD
           parsed == IF Len(argv) > 2 THEN int(argv[3]) ELSE [ok |-> TRUE, val |-> 0]
       IN  IF ~parsed.ok
              THEN /\ vfy' = [vfy EXCEPT !.DEVICE = dev]
                   /\ Exit(Uncaught.code, Uncaught.how, "ValueError")
              ELSE /\ vfy' = [vfy EXCEPT !.DEVICE = dev, !.BASE_BLOCK = parsed.val]
                   /\ IF base_block_rejected(parsed.val)
                         THEN Exit(1, "usage error", "SystemExit")
                         ELSE /\ pc' = "open"
                              /\ UNCHANGED <<boot, fat, root, fh, ending>>
    /\ UNCHANGED <<card, runs, prog, argv, device, force, prompted, answer, fpos, iolog>>

\* with open(DEVICE, "rb") as f:
VfyOpen ==
    /\ prog = VERIFY_SD /\ pc = "open" /\ vfy.DEVICE = CARD
    /\ fh' = "rb" /\ fpos' = 0
    /\ iolog' = Append(iolog, IOEntry("open", 0, 0))
    /\ pc' = "boot"
    /\ UNCHANGED <<card, runs, prog, argv, device, force, prompted, answer, boot, fat,
                   root, ending, vfy>>

VfyOpenFail ==
    /\ prog = VERIFY_SD /\ pc = "open"
    /\ iolog' = Append(iolog, IOEntry("open", 0, 0))
    /\ \E exc \in OpenErrors(vfy.DEVICE) :
        Exit(verify_except(exc).code, verify_except(exc).how, exc)
    /\ UNCHANGED <<card, runs, prog, argv, device, force, prompted, answer, fpos, vfy>>

\* f.seek(0); boot = f.read(512); sig_ok, fs_type, vol_label
VfyBoot ==
    /\ prog = VERIFY_SD /\ pc = "boot" /\ fh = "rb"
    /\ boot' = ReadAt(media, disk, 0, V_SECTOR)
    /\ fpos' = V_SECTOR
    /\ iolog' = Append(iolog, IOEntry("read", 0, V_SECTOR))
    /\ vfy' = [vfy EXCEPT
                 !.sig_ok    = (Slice(boot', 510, 512) = <<85, 170>>),
                 !.fs_type   = strip(decode_ascii(Slice(boot', 54, 62))),
                 !.vol_label = strip(decode_ascii(Slice(boot', 43, 54)))]
    /\ pc' = "root"
    /\ UNCHANGED <<card, runs, prog, argv, device, force, prompted, answer, fat, root,
                   fh, ending>>

\* The size line of the report.
size_report(file_size) ==
    IF file_size = V_EXPECTED_SIZE THEN "OK - 1 MB" ELSE "WRONG - should be 1048576"

\* f.seek(19 * 512); root = f.read(512); name, ext, attr, cluster, file_size
VfyRoot ==
    /\ prog = VERIFY_SD /\ pc = "root" /\ fh = "rb"
    /\ root' = ReadAt(media, disk, V_ROOT_SECTOR * V_SECTOR, V_SECTOR)
    /\ fpos' = V_ROOT_SECTOR * V_SECTOR + V_SECTOR
    /\ iolog' = Append(iolog, IOEntry("read", V_ROOT_SECTOR * V_SECTOR, V_SECTOR))
    /\ vfy' = [vfy EXCEPT
                 !.name        = rstrip(decode_ascii(Slice(root', 0, 8))),
                 !.ext         = rstrip(decode_ascii(Slice(root', 8, 11))),
                 !.attr        = root'[11 + 1],
                 !.cluster     = unpack_from_H(root', 26),
                 !.file_size   = unpack_from_L(root', 28),
                 !.size_report = size_report(unpack_from_L(root', 28))]
    /\ pc' = "sample"
    /\ UNCHANGED <<card, runs, prog, argv, device, force, prompted, answer, boot, fat,
                   fh, ending>>

min(a, b) == IF a < b THEN a ELSE b

\* The requested block, the next one, and the requested block again.
sample_blocks_again(b) == <<b, min(b + 1, V_LAST_BLOCK), b>>

\* No clamp at the last block.
sample_blocks_unclamped(b) == <<b, b + 1, b + 2>>

\* (BASE_BLOCK, min(BASE_BLOCK + 1, 2047), min(BASE_BLOCK + 2, 2047))
sample_blocks(b) == <<b, min(b + 1, V_LAST_BLOCK), min(b + 2, V_LAST_BLOCK)>>

\* One turn of the loop: f.seek((20 + blk) * 512); data = f.read(16);
\* captures.append((blk, data))
VfySample ==
    /\ prog = VERIFY_SD /\ pc = "sample" /\ fh = "rb"
    /\ LET blk  == sample_blocks(vfy.BASE_BLOCK)[Len(vfy.captures) + 1]
           pos  == (V_DATA_START + blk) * V_SECTOR
           data == ReadAt(media, disk, pos, V_SAMPLE_LEN)
       IN  /\ vfy' = [vfy EXCEPT !.captures = Append(@, <<blk, data>>)]
           /\ fpos' = pos + V_SAMPLE_LEN
           /\ iolog' = Append(iolog, IOEntry("read", pos, V_SAMPLE_LEN))
           /\ pc' = IF Len(vfy.captures) + 1 = 3 THEN "aes" ELSE "sample"
    /\ UNCHANGED <<card, runs, prog, argv, device, force, prompted, answer, boot, fat,
                   root, fh, ending>>

\* if captures[0][0] != captures[2][0]: same = captures[0][1] == captures[2][1]
\* and the match is reported; then "Done." and the script ends.
VfyAes ==
    /\ prog = VERIFY_SD /\ pc = "aes"
    /\ vfy' = [vfy EXCEPT !.aes =
                 IF vfy.captures[1][1] # vfy.captures[3][1]
                    THEN IF vfy.captures[1][2] = vfy.captures[3][2]
                            THEN "MATCH" ELSE "DIFFER"
                    ELSE "not compared"]
    /\ Exit(0, "done", "")
    /\ UNCHANGED <<card, runs, prog, argv, device, force, prompted, answer, fpos, iolog>>

\* f.read fails.
VfyReadFail ==
    /\ prog = VERIFY_SD /\ pc \in {"boot", "root", "sample"} /\ fh = "rb"
    /\ \E exc \in IOErrors :
        Exit(verify_except(exc).code, verify_except(exc).how, exc)
    /\ UNCHANGED <<card, runs, prog, argv, device, force, prompted, answer, fpos,
                   iolog, vfy>>

VerifyStep ==
    \/ VfyArgs \/ VfyOpen \/ VfyOpenFail \/ VfyBoot \/ VfyRoot \/ VfySample
    \/ VfyAes \/ VfyReadFail

\* ------------------------------------------------- specifications
\* A session: up to MaxRuns invocations of either program on one card.
Next == LaunchFormat \/ FormatStep \/ LaunchVerify \/ VerifyStep \/ Reap
Spec == Init /\ [][Next]_vars

\* One invocation of verify_sd.py.
NextV == LaunchVerifyAny \/ VerifyStep
SpecV == Init /\ [][NextV]_vars

\* ------------------------------------------------- properties
FormatDone == prog = FORMAT_SD /\ pc = "exit" /\ outcome = "done"
FormatFailed == prog = FORMAT_SD /\ pc = "exit" /\ raised # ""
VerifyDone == prog = VERIFY_SD /\ pc = "exit" /\ outcome = "done"

FatEntry(f, c) == unpack_from_H(f, 2 * c)

\* One link of the chain: from cluster w.at to the cluster its entry names.
ChainStep(f, w) ==
    IF w.status # "walking" THEN w
    ELSE IF w.at \in w.seen THEN [w EXCEPT !.status = "revisit"]
    ELSE IF w.at < 2 \/ 2 * w.at + 2 > Len(f) THEN [w EXCEPT !.status = "stray"]
    ELSE IF FatEntry(f, w.at) >= 65528
            THEN [w EXCEPT !.status = "end", !.seen = @ \cup {w.at}]
            ELSE [w EXCEPT !.at = FatEntry(f, w.at), !.seen = @ \cup {w.at}]

RECURSIVE ChainSteps(_, _, _)
ChainSteps(f, w, n) ==
    IF n = 0 \/ w.status # "walking" THEN w ELSE ChainSteps(f, ChainStep(f, w), n - 1)

RECURSIVE ChainRounds(_, _, _)
ChainRounds(f, w, r) ==
    IF r = 0 \/ w.status # "walking" THEN w
    ELSE ChainRounds(f, ChainSteps(f, w, 64), r - 1)

\* The links followed from cluster c, for up to 64 * 64 of them.
Chain(f, c) == ChainRounds(f, [at |-> c, seen |-> {}, status |-> "walking"], 64)

\* C2: the FAT table write_fat16 has built with make_fat decodes to
\* entry[0] = 0xFFF8, entry[1] = 0xFFFF, entry[c] = c+1 for c in 2..2048 and
\* entry[2049] = 0xFFFF; the chain from cluster 2 reaches the end-of-chain
\* marker having visited each of the 2048 clusters 2..2049 once.
C2_FatChain ==
    (prog = FORMAT_SD /\ pc = "open") =>
        /\ FatEntry(fat, 0) = 65528
        /\ FatEntry(fat, 1) = 65535
        /\ \A c \in 2..2048 : FatEntry(fat, c) = c + 1
        /\ FatEntry(fat, 2049) = 65535
        /\ LET walk == Chain(fat, 2)
           IN  /\ walk.status = "end"
               /\ walk.at = 2049
               /\ walk.seen = 2..2049
               /\ Cardinality(walk.seen) = 2048

C2_Witness ==
    prog = FORMAT_SD /\ pc = "open" /\ Len(fat) = 9 * 512 /\ FatEntry(fat, 2048) = 2049

\* What the verifier's decoded strings are compared with.
TEXT_FPGA_DATA == <<70, 80, 71, 65, 32, 68, 65, 84, 65>>
TEXT_FAT16 == <<70, 65, 84, 49, 54>>
TEXT_DATA == <<68, 65, 84, 65>>
TEXT_BIN == <<66, 73, 78>>

\* C3: once a format_sd.py run on the card has completed, a completed
\* verify_sd.py run on it has found the boot signature valid, volume label
\* 'FPGA DATA', filesystem type 'FAT16', file DATA.BIN, first cluster 2 and
\* file size 1048576 = DATA_CLUSTERS * SECTOR_SIZE, and reports the size OK.
C3_RoundTrip ==
    (VerifyDone /\ snap # <<>>) =>
        /\ vfy.sig_ok
        /\ vfy.vol_label = TEXT_FPGA_DATA
        /\ vfy.fs_type = TEXT_FAT16
        /\ vfy.name = TEXT_DATA /\ vfy.ext = TEXT_BIN
        /\ vfy.cluster = 2
        /\ vfy.file_size = <<16, 0>>
        /\ vfy.file_size = U32(DATA_CLUSTERS * SECTOR_SIZE)
        /\ vfy.size_report = "OK - 1 MB"

C3_Witness == VerifyDone /\ snap # <<>> /\ media = 2

\* The card after one run of write_fat16 that wrote all four buffers to the
\* card as it was before the session.
RunOnce ==
    LET d1 == WriteAt(media, <<>>, BOOT_OFFSET, make_boot_sector, Len(make_boot_sector))
        d2 == WriteAt(media, d1, FAT1_OFFSET, make_fat, Len(make_fat))
        d3 == WriteAt(media, d2, FAT2_OFFSET, make_fat, Len(make_fat))
    IN  WriteAt(media, d3, ROOT_OFFSET, make_root_dir, Len(make_root_dir))

\* C4: whenever a format_sd.py run completes, the card holds what the first
\* completed run of the session left on it, and what one completed run on
\* the untouched card leaves: whatever runs, failed part-way or completed,
\* came before.
C4_Idempotent ==
    FormatDone =>
        /\ SameContents(media, disk, snap)
        /\ SameContents(media, disk, RunOnce)

\* A completed run after a run that failed part-way through its writes.
C4_Witness == FormatDone /\ torn /\ runs >= 2

\* The line typed is YES in any mix of cases with nothing but whitespace
\* around it.
TypedYes(a) ==
    \E i \in 1..Len(a) :
        /\ i + 2 <= Len(a)
        /\ \A j \in 1..Len(a) : (j < i \/ j > i + 2) => a[j] \in {32, 9, 10, 11, 12, 13}
        /\ a[i] \in {89, 121} /\ a[i + 1] \in {69, 101} /\ a[i + 2] \in {83, 115}

AfterGate == {"open", "w_boot", "w_fat1", "w_fat2", "w_root", "sync"}

\* C5: with a device path and no --force, format_sd.py reads a confirmation
\* and calls write_fat16 only if the line typed is YES after trimming and
\* ignoring case; on any other line it exits with status 0 ("Aborted.")
\* having done no I/O on the device.  The device is opened and written only
\* inside write_fat16.  With --force, write_fat16 is called without a
\* confirmation being read.
C5_ConfirmationGate ==
    /\ [][(prog = FORMAT_SD /\ pc = "input") =>
            /\ ~force /\ prompted'
            /\ disk' = disk /\ iolog' = <<>>
            /\ (pc' = "write_fat16") => TypedYes(answer')
            /\ (raised' = "" /\ ~TypedYes(answer')) =>
                  (pc' = "exit" /\ exit_code' = 0 /\ outcome' = "aborted")
            /\ (raised' = "" /\ TypedYes(answer')) => pc' = "write_fat16"]_vars
    /\ [][(prog = FORMAT_SD /\ pc # "write_fat16" /\ pc' = "write_fat16") =>
            (pc = "input" \/ (pc = "main" /\ force' /\ ~prompted'))]_vars
    /\ [][(prog = FORMAT_SD /\ (disk' # disk \/ iolog' # iolog) /\ pc' # "shell") =>
            pc \in AfterGate]_vars
    /\ [][(prog = FORMAT_SD /\ pc' \in AfterGate /\ pc \notin AfterGate) =>
            pc = "write_fat16"]_vars
    /\ [](prog = FORMAT_SD /\ force => ~prompted)

\* " yEs " was typed and write_fat16 is about to run.
C5_Witness ==
    prog = FORMAT_SD /\ pc = "write_fat16" /\ ~force /\ answer = <<32, 121, 69, 115, 32>>

\* C6: for every accepted base block index b in 0..2047, every block index
\* verify_sd.py samples lies in b..2047 and every data read lies in sectors
\* 20..2067; for b = 2047 the samples after the first are at 2047.
C6_SamplesInDataArea ==
    prog = VERIFY_SD =>
        /\ \A i \in 1..Len(vfy.captures) :
              /\ vfy.captures[i][1] >= vfy.BASE_BLOCK
              /\ vfy.captures[i][1] <= 2047
              /\ (vfy.BASE_BLOCK = 2047 /\ i > 1) => vfy.captures[i][1] = 2047
        /\ \A i \in 1..Len(iolog) :
              (iolog[i].op = "read" /\ i > 3) =>
                  /\ iolog[i].off \div 512 \in 20..2067
                  /\ (iolog[i].off + iolog[i].n - 1) \div 512 \in 20..2067
                  /\ iolog[i].off = (20 + vfy.captures[i - 3][1]) * 512
        /\ Len(iolog) = (IF Len(iolog) > 3 THEN 3 + Len(vfy.captures) ELSE Len(iolog))
        /\ Len(vfy.captures) > 0 => vfy.BASE_BLOCK \in 0..2047

\* All three samples taken for b = 2047.
C6_Witness ==
    prog = VERIFY_SD /\ vfy.BASE_BLOCK = 2047 /\ Len(vfy.captures) = 3

\* C7 as stated: the third sample is taken at the requested block itself.
C7_ThirdSampleIsRequestedBlock ==
    (prog = VERIFY_SD /\ Len(vfy.captures) = 3) =>
        /\ vfy.captures[1][1] = vfy.BASE_BLOCK
        /\ vfy.captures[2][1] = min(vfy.BASE_BLOCK + 1, 2047)
        /\ vfy.captures[3][1] = vfy.BASE_BLOCK

\* The first 16 bytes of data block blk on the card.
BlockHead(blk) == DeviceBytes(media, disk, (20 + blk) * 512, (20 + blk) * 512 + 16)

\* C7, amended: the samples are the first 16 bytes of blocks b,
\* min(b+1, 2047) and min(b+2, 2047); block b is compared with the third
\* sample, and only when the third sample is another block (b < 2047).
C7_SamplesAndCheck ==
    prog = VERIFY_SD =>
        /\ \A i \in 1..Len(vfy.captures) :
              /\ vfy.captures[i][1] = min(vfy.BASE_BLOCK + (i - 1), 2047)
              /\ vfy.captures[i][2] = BlockHead(vfy.captures[i][1])
        /\ Len(vfy.captures) <= 3
        /\ VerifyDone =>
              /\ Len(vfy.captures) = 3
              /\ vfy.aes = IF vfy.BASE_BLOCK = 2047 THEN "not compared"
                           ELSE IF BlockHead(vfy.BASE_BLOCK)
                                      = BlockHead(min(vfy.BASE_BLOCK + 2, 2047))
                                   THEN "MATCH" ELSE "DIFFER"

\* Blocks 5 and 7 were compared and differ.
C7_Witness ==
    VerifyDone /\ vfy.BASE_BLOCK = 5 /\ vfy.captures[3][1] = 7 /\ vfy.aes = "DIFFER"

\* C8 as stated: status 1 exactly on a permission or not-found failure, 0 in
\* every other outcome, any other failure included.
C8_ExitOneOnlyOnPermissionOrNotFound ==
    (prog = FORMAT_SD /\ pc = "exit") =>
        /\ raised \in {"PermissionError", "FileNotFoundError"} => exit_code = 1
        /\ raised \notin {"PermissionError", "FileNotFoundError"} => exit_code = 0

\* C8, amended: format_sd.py exits with status 1 when an exception ends the
\* run (a permission or not-found failure, which write_fat16 reports, or any
\* other, which nothing catches) and with status 0 when it ends with no
\* arguments given, the confirmation declined or the write completed.
C8_ExitCode ==
    (prog = FORMAT_SD /\ pc = "exit") =>
        /\ exit_code \in {0, 1}
        /\ exit_code = 1 <=> raised # ""
        /\ exit_code = 0 <=> outcome \in {"usage", "aborted", "done"}
        /\ raised \in {"PermissionError", "FileNotFoundError"} => exit_code = 1
        /\ raised = "" <=> outcome \in {"usage", "aborted", "done"}

\* A write failed with a permission failure.
C8_Witness ==
    FormatFailed /\ raised = "PermissionError" /\ Len(iolog) >= 2 /\ exit_code = 1

\* The block index argument is given and is an integer in 0..2047.
BlockArgAccepted == Len(argv) > 2 /\ int(argv[3]).ok /\ int(argv[3]).val \in 0..2047

\* C9: when the block index argument is not an integer or is outside
\* 0..2047, verify_sd.py ends with an error (ValueError or the SystemExit
\* message, status 1) without having opened or read the device; the device
\* is opened only with an integer in 0..2047, or with no index and base 0.
C9_ValidationBeforeIO ==
    prog = VERIFY_SD =>
        /\ (Len(argv) > 2 /\ ~BlockArgAccepted) =>
              /\ iolog = <<>> /\ fh = "closed" /\ pc \in {"main", "exit"}
              /\ pc = "exit" =>
                    /\ raised = (IF int(argv[3]).ok THEN "SystemExit" ELSE "ValueError")
                    /\ exit_code = 1
        /\ (iolog # <<>> \/ fh # "closed") =>
              \/ BlockArgAccepted /\ vfy.BASE_BLOCK = int(argv[3]).val
              \/ Len(argv) <= 2 /\ vfy.BASE_BLOCK = 0

\* Index 2048 was refused with the device untouched.
C9_Witness ==
    /\ prog = VERIFY_SD /\ pc = "exit" /\ raised = "SystemExit"
    /\ vfy.BASE_BLOCK = 2048 /\ iolog = <<>>

\* The byte ranges <<first, end>> the run has written.
WrittenRanges ==
    {<<iolog[i].off, iolog[i].off + iolog[i].n>> :
        i \in {j \in 1..Len(iolog) : iolog[j].op = "write"}}

\* C10: after a completed format_sd.py run sector 0 holds the boot sector,
\* sectors 1..9 FAT copy 1, sectors 10..18 an identical FAT copy 2 and
\* sector 19 the root directory; the four regions written are pairwise
\* disjoint and cover exactly sectors 0..19; the data area starts at sector
\* 20 = reserved + FAT copies * FAT sectors + root sectors, and the boot
\* sector's 16-bit total-sector field holds 2068.
C10_Layout ==
    FormatDone =>
        /\ DeviceBytes(media, disk, 0, 512) = make_boot_sector
        /\ DeviceBytes(media, disk, 1 * 512, 10 * 512) = make_fat
        /\ DeviceBytes(media, disk, 10 * 512, 19 * 512)
              = DeviceBytes(media, disk, 1 * 512, 10 * 512)
        /\ DeviceBytes(media, disk, 19 * 512, 20 * 512) = make_root_dir
        /\ WrittenRanges = {<<0, 512>>, <<512, 5120>>, <<5120, 9728>>, <<9728, 10240>>}
        /\ \A r1, r2 \in WrittenRanges : r1 # r2 => (r1[2] <= r2[1] \/ r2[2] <= r1[1])
        /\ \A o \in 0..(20 * 512 - 1) : \E r \in WrittenRanges : r[1] <= o /\ o < r[2]
        /\ \A r \in WrittenRanges : r[1] >= 0 /\ r[2] <= 20 * 512
        /\ DATA_START_SECTOR = 20
        /\ DATA_START_SECTOR = RESERVED_SECTORS + NUM_FATS * FAT_SECTORS + ROOT_SECTORS
        /\ TOTAL_SECTORS = 2068
        /\ unpack_from_H(DeviceBytes(media, disk, 0, 512), 19) = 2068

\* A first run completed on a card full of junk.
C10_Witness == FormatDone /\ media = 2 /\ runs = 1
====
